---- MODULE Spec2Model ----
(***************************************************************************)
(* Model of the derive macro `Optionalize` (src/src/lib.rs).               *)
(*                                                                         *)
(* derive_optionalize receives one parsed declaration (syn::DeriveInput),  *)
(* builds the name `<ident>Optional`, takes the fields of a struct (or     *)
(* returns a compile error for enums and unions), maps every field to      *)
(* `ident: ty` or `ident: Option<ty>` and renders                          *)
(* `pub struct <name> { fields, }`.                                        *)
(*                                                                         *)
(* Each invocation is a slot i with its own locals.  The syntax trees are  *)
(* records; what quote! renders is modelled by the tree the rendered       *)
(* tokens parse to.  Attributes and generics of the input are never read   *)
(* by the code and are left out of the trees.                              *)
(***************************************************************************)
EXTENDS Integers, Sequences, FiniteSets, TLC

\* ------------------------------------------------------------------ bounds
MaxFields == 2          \* most fields of an input declaration
NumInvocations == 2     \* invocations the host can have in flight
MaxNameLen == 12        \* longest name of a rendered struct that is derived again

\* ------------------------------------------------------------ syntax trees
\* syn::PathSegment { ident, arguments }
Seg(id, args) == [ident |-> id, arguments |-> args]

\* syn::Type::Path(TypePath { path, .. })
PathType(segs) == [kind |-> "Path", segments |-> segs, elems |-> <<>>]

\* syn::Type::Tuple
TupleType(ts) == [kind |-> "Tuple", segments |-> <<>>, elems |-> ts]

\* syn::Type::Paren
ParenType(t) == [kind |-> "Paren", segments |-> <<>>, elems |-> <<t>>]

TyI32 == PathType(<<Seg("i32", <<>>)>>)
TyString == PathType(<<Seg("String", <<>>)>>)
\* Option<i32>
TyOption == PathType(<<Seg("Option", <<TyI32>>)>>)
\* std::option::Option<i32>
TyStdOption == PathType(<<Seg("std", <<>>), Seg("option", <<>>), Seg("Option", <<TyI32>>)>>)
\* Option  (no generic argument)
TyBareOption == PathType(<<Seg("Option", <<>>)>>)
\* Opt<i32>, with `type Opt<T> = Option<T>;` somewhere in the program
TyAlias == PathType(<<Seg("Opt", <<TyI32>>)>>)
\* Option::Item  (Option is a leading segment, not the last one)
TyOptionItem == PathType(<<Seg("Option", <<>>), Seg("Item", <<>>)>>)
\* Vec<Option<i32>>
TyVecOption == PathType(<<Seg("Vec", <<TyOption>>)>>)
\* (i32, String)
TyTuple == TupleType(<<TyI32, TyString>>)
\* (Option<i32>)
TyParenOption == ParenType(TyOption)

SampleTypes ==
    {TyI32, TyOption, TyStdOption, TyBareOption, TyAlias, TyOptionItem,
     TyVecOption, TyTuple, TyParenOption}

Visibilities == {"pub", "inherited"}

\* the field names of a record, in the two orders a declaration is given
FieldIdents == {<<"id", "name", "note", "tags">>, <<"note", "name", "id", "tags">>}

NoIdent == "<none>"

\* syn::Field { vis, ident, ty }
Field(v, id, t) == [vis |-> v, ident |-> id, ty |-> t]

RECURSIVE SeqsUpTo(_, _)
SeqsUpTo(S, n) ==
    IF n = 0 THEN {<<>>}
    ELSE LET shorter == SeqsUpTo(S, n - 1)
         IN  shorter \cup {Append(s, x) : s \in {t \in shorter : Len(t) = n - 1}, x \in S}

\* fields of a struct with named fields: distinct identifiers
NamedFieldLists ==
    {[k \in 1..Len(fs) |-> Field(fs[k].vis, ids[k], fs[k].ty)] :
        fs \in SeqsUpTo({Field(v, NoIdent, t) : v \in Visibilities, t \in SampleTypes}, MaxFields),
        ids \in FieldIdents}

\* fields of a tuple struct: no identifiers
UnnamedFieldLists ==
    SeqsUpTo({Field(v, NoIdent, t) : v \in Visibilities, t \in SampleTypes}, MaxFields)

\* syn::DeriveInput { vis, ident, data }; data is syn::Data::{Struct, Enum, Union},
\* a struct's fields are syn::Fields::{Named, Unnamed, Unit}
Decl(v, id, k, st, fs) ==
    [vis |-> v, ident |-> id, data |-> [kind |-> k, style |-> st, fields |-> fs]]

NoDecl == Decl("inherited", "", "None", "None", <<>>)

Decls ==
    {Decl(v, "Item", "Struct", "Named", fs) : v \in Visibilities, fs \in NamedFieldLists}
    \cup {Decl(v, "Item", "Struct", "Unnamed", fs) : v \in Visibilities, fs \in UnnamedFieldLists}
    \cup {Decl(v, "Item", "Struct", "Unit", <<>>) : v \in Visibilities}
    \cup {Decl(v, "Item", k, "None", <<>>) : v \in Visibilities, k \in {"Enum", "Union"}}

\* the declarations of a program whose derives the host expands in parallel
ParDecls ==
    {Decl("pub", n, "Struct", "Named", <<Field("pub", "id", t)>>) :
        n \in {"Item", "Note"}, t \in {TyI32, TyOption, TyAlias}}
    \cup {Decl("pub", n, "Struct", "Unit", <<>>) : n \in {"Item", "Note"}}
    \cup {Decl("pub", n, "Enum", "None", <<>>) : n \in {"Item", "Note"}}

Invocations == 1..NumInvocations

\* ------------------------------------------------------------------- state
VARIABLES
    pc,                    \* where each invocation stands in derive_optionalize
    input,                 \* the parsed DeriveInput
    struct_name,           \* input.ident.clone()
    optional_struct_name,  \* the generated name
    fields,                \* data_struct.fields
    optional_fields,       \* the fields rendered so far by the map closure
    output                 \* the returned TokenStream

vars == <<pc, input, struct_name, optional_struct_name, fields, optional_fields, output>>

NoOutput == [kind |-> "none", decl |-> NoDecl, message |-> "", span |-> NoDecl]

Init ==
    /\ pc = [i \in Invocations |-> "idle"]
    /\ input = [i \in Invocations |-> NoDecl]
    /\ struct_name = [i \in Invocations |-> ""]
    /\ optional_struct_name = [i \in Invocations |-> ""]
    /\ fields = [i \in Invocations |-> <<>>]
    /\ optional_fields = [i \in Invocations |-> <<>>]
    /\ output = [i \in Invocations |-> NoOutput]

\* --------------------------------------------------------- pure operators
\* mutant: the suffix is put in front of the name
OptionalName_Prefixed(name) == "Optional" \o name

\* format!("{}Optional", struct_name)
OptionalName(name) == name \o "Optional"

\* mutant: the first segment is compared instead of the last
LastSegmentIsOption_First(path) ==
    IF Len(path) = 0 THEN FALSE ELSE path[1].ident = "Option"

\* path.segments.last().map(|s| s.ident == "Option").unwrap_or(false)
LastSegmentIsOption(path) ==
    IF Len(path) = 0 THEN FALSE ELSE path[Len(path)].ident = "Option"

\* mutant: only the one-segment path `Option<..>` is recognised
IsOption_SingleSegment(ty) ==
    IF ty.kind = "Path"
    THEN Len(ty.segments) = 1 /\ ty.segments[1].ident = "Option"
    ELSE FALSE

\* if let Type::Path(TypePath { path, .. }) = field_type { <last segment is Option> }
IsOption(ty) ==
    IF ty.kind = "Path" THEN LastSegmentIsOption(ty.segments) ELSE FALSE

\* Option<#field_type>
WrapInOption(ty) == PathType(<<Seg("Option", <<ty>>)>>)

\* mutant: the check for Option is forgotten and every type is wrapped
OptionalType_AlwaysWrap(ty) == WrapInOption(ty)

\* the type the closure renders for a field
OptionalType(ty) == IF IsOption(ty) THEN ty ELSE WrapInOption(ty)

\* the visibility the closure renders: the quoted field is `name: type`, nothing before it
RenderedVis(field) == "inherited"

\* quote! { #field_name: #field_type } / quote! { #field_name: Option<#field_type> }
OptionalField(field) == Field(RenderedVis(field), field.ident, OptionalType(field.ty))

\* mutant: the fields are rendered last to first
Expanded_Reversed(name, ofs) ==
    Decl("pub", name, "Struct", "Named", [k \in 1..Len(ofs) |-> ofs[Len(ofs) + 1 - k]])

\* pub struct #optional_struct_name { #( #optional_fields, )* }
Expanded(name, ofs) == Decl("pub", name, "Struct", "Named", ofs)

\* the rendered tokens parse as a declaration: every `name: type` has a name
Parseable(decl) == \A k \in 1..Len(decl.data.fields) : decl.data.fields[k].ident # NoIdent

\* mutant: a struct without fields is taken for a non-struct
IsStruct_WithFields(decl) == decl.data.kind = "Struct" /\ Len(decl.data.fields) > 0

\* if let Data::Struct(data_struct) = input.data
IsStruct(decl) == decl.data.kind = "Struct"

\* mutant: the name is kept in a static that the first invocation in flight owns
Ident_Shared(i) == IF input[1] = NoDecl THEN input[i].ident ELSE input[1].ident

\* input.ident.clone(), read by invocation i from its own input
Ident(i) == input[i].ident

\* ----------------------------------------------------------------- actions
\* the locals of a fresh call on declaration d
Start(i, d) ==
    /\ pc' = [pc EXCEPT ![i] = "parsed"]
    /\ input' = [input EXCEPT ![i] = d]
    /\ struct_name' = [struct_name EXCEPT ![i] = ""]
    /\ optional_struct_name' = [optional_struct_name EXCEPT ![i] = ""]
    /\ fields' = [fields EXCEPT ![i] = <<>>]
    /\ optional_fields' = [optional_fields EXCEPT ![i] = <<>>]
    /\ output' = [output EXCEPT ![i] = NoOutput]

\* the host calls derive_optionalize on one declaration of D; parse_macro_input!
Invoke(i, D) ==
    /\ pc[i] = "idle"
    /\ \E d \in D : Start(i, d)

\* the declaration an invocation rendered is itself derived
Reinvoke(i) ==
    /\ pc[i] = "rendered"
    /\ Parseable(output[i].decl)
    /\ Len(output[i].decl.ident) <= MaxNameLen
    /\ Start(i, output[i].decl)

\* let struct_name = ...; let optional_struct_name = ...
NameStruct(i) ==
    /\ pc[i] = "parsed"
    /\ struct_name' = [struct_name EXCEPT ![i] = Ident(i)]
    /\ optional_struct_name' = [optional_struct_name EXCEPT ![i] = OptionalName(Ident(i))]
    /\ pc' = [pc EXCEPT ![i] = "named"]
    /\ UNCHANGED <<input, fields, optional_fields, output>>

\* if let Data::Struct(data_struct) = input.data { data_struct.fields }
TakeFields(i) ==
    /\ pc[i] = "named"
    /\ IsStruct(input[i])
    /\ fields' = [fields EXCEPT ![i] = input[i].data.fields]
    /\ pc' = [pc EXCEPT ![i] = "fields"]
    /\ UNCHANGED <<input, struct_name, optional_struct_name, optional_fields, output>>

\* mutant: the error is built but the return is missing, the code falls through
RejectNonStruct_FallThrough(i) ==
    /\ pc[i] = "named"
    /\ ~(input[i].data.kind = "Struct")
    /\ output' = [output EXCEPT ![i] =
            [kind |-> "compile_error", decl |-> NoDecl,
             message |-> "Optionalize can only be used on structs", span |-> input[i]]]
    /\ fields' = [fields EXCEPT ![i] = input[i].data.fields]
    /\ pc' = [pc EXCEPT ![i] = "fields"]
    /\ UNCHANGED <<input, struct_name, optional_struct_name, optional_fields>>

\* else { return syn::Error::new_spanned(input, "...").to_compile_error().into() }
RejectNonStruct(i) ==
    /\ pc[i] = "named"
    /\ ~IsStruct(input[i])
    /\ output' = [output EXCEPT ![i] =
            [kind |-> "compile_error", decl |-> NoDecl,
             message |-> "Optionalize can only be used on structs", span |-> input[i]]]
    /\ pc' = [pc EXCEPT ![i] = "error"]
    /\ UNCHANGED <<input, struct_name, optional_struct_name, fields, optional_fields>>

\* one call of the closure of fields.iter().map(...), on the next field
ProjectField(i) ==
    /\ pc[i] = "fields"
    /\ Len(optional_fields[i]) < Len(fields[i])
    /\ optional_fields' = [optional_fields EXCEPT ![i] =
            Append(@, OptionalField(fields[i][Len(@) + 1]))]
    /\ UNCHANGED <<pc, input, struct_name, optional_struct_name, fields, output>>

\* let expanded = quote! { ... }; TokenStream::from(expanded)
Render(i) ==
    /\ pc[i] = "fields"
    /\ Len(optional_fields[i]) = Len(fields[i])
    /\ output' = [output EXCEPT ![i] =
            [kind |-> "struct", decl |-> Expanded(optional_struct_name[i], optional_fields[i]),
             message |-> "", span |-> NoDecl]]
    /\ pc' = [pc EXCEPT ![i] = "rendered"]
    /\ UNCHANGED <<input, struct_name, optional_struct_name, fields, optional_fields>>

\* the call has returned and its locals are dropped
Return(i) ==
    /\ pc[i] \in {"rendered", "error"}
    /\ pc' = [pc EXCEPT ![i] = "idle"]
    /\ input' = [input EXCEPT ![i] = NoDecl]
    /\ struct_name' = [struct_name EXCEPT ![i] = ""]
    /\ optional_struct_name' = [optional_struct_name EXCEPT ![i] = ""]
    /\ fields' = [fields EXCEPT ![i] = <<>>]
    /\ optional_fields' = [optional_fields EXCEPT ![i] = <<>>]
    /\ output' = [output EXCEPT ![i] = NoOutput]

\* the host expands one derive at a time: no other call is in flight
Alone(i) == \A j \in Invocations : j # i => (pc[j] = "idle" /\ i < j)

\* the host expands one derive at a time, on any declaration
Next ==
    \/ \E i \in Invocations : Alone(i) /\ Invoke(i, Decls)
    \/ \E i \in Invocations : Reinvoke(i)
    \/ \E i \in Invocations : NameStruct(i)
    \/ \E i \in Invocations : TakeFields(i)
    \/ \E i \in Invocations : RejectNonStruct(i)
    \/ \E i \in Invocations : ProjectField(i)
    \/ \E i \in Invocations : Render(i)
    \/ \E i \in Invocations : Return(i)

Spec == Init /\ [][Next]_vars

\* the host expands the derives of a program in parallel, in any interleaving
ParNext ==
    \/ \E i \in Invocations : Invoke(i, ParDecls)
    \/ \E i \in Invocations : Reinvoke(i)
    \/ \E i \in Invocations : NameStruct(i)
    \/ \E i \in Invocations : TakeFields(i)
    \/ \E i \in Invocations : RejectNonStruct(i)
    \/ \E i \in Invocations : ProjectField(i)
    \/ \E i \in Invocations : Render(i)
    \/ \E i \in Invocations : Return(i)

ParSpec == Init /\ [][ParNext]_vars

\* ------------------------------------------------------------------ claims
Rendered(i) == pc[i] = "rendered"
Rejected(i) == pc[i] = "error"
Terminal(i) == Rendered(i) \/ Rejected(i)

InFields(i) == input[i].data.fields
OutFields(i) == output[i].decl.data.fields

\* a struct with named fields: the record of the specification
IsRecord(decl) == decl.data.kind = "Struct" /\ decl.data.style = "Named"

\* `Option<t>` written out
OptionOf(t) ==
    [kind |-> "Path", segments |-> <<[ident |-> "Option", arguments |-> <<t>>]>>, elems |-> <<>>]

\* a path type whose last segment is named Option
EndsInOption(t) ==
    /\ t.kind = "Path"
    /\ Len(t.segments) > 0
    /\ t.segments[Len(t.segments)].ident = "Option"

\* C1: in every rendered declaration each field whose type the code does not
\* take for an Option has the type Option<original type>, wrapped once, and
\* each field whose type it takes for an Option keeps its type unchanged.
C1_WrappingCorrectness ==
    \A i \in Invocations :
        Rendered(i) =>
            \A k \in 1..Len(InFields(i)) :
                /\ k <= Len(OutFields(i))
                /\ IF IsOption(InFields(i)[k].ty)
                   THEN OutFields(i)[k].ty = InFields(i)[k].ty
                   ELSE /\ OutFields(i)[k].ty = OptionOf(InFields(i)[k].ty)
                        /\ OutFields(i)[k].ty # OptionOf(OptionOf(InFields(i)[k].ty))

C1_Witness ==
    \E i \in Invocations :
        /\ Rendered(i)
        /\ IsRecord(input[i])
        /\ \E a, b \in 1..Len(InFields(i)) :
            /\ IsOption(InFields(i)[a].ty)
            /\ OutFields(i)[a].ty = TyOption
            /\ ~IsOption(InFields(i)[b].ty)
            /\ OutFields(i)[b].ty = OptionOf(TyI32)

\* C2: the declaration rendered for a record has as many fields as the record,
\* and its k-th field has the name of the record's k-th field.
C2_FieldCountPreservation ==
    \A i \in Invocations :
        (Rendered(i) /\ IsRecord(input[i])) =>
            /\ Len(OutFields(i)) = Len(InFields(i))
            /\ \A k \in 1..Len(InFields(i)) : OutFields(i)[k].ident = InFields(i)[k].ident

C2_Witness ==
    \E i \in Invocations :
        /\ Rendered(i)
        /\ IsRecord(input[i])
        /\ Len(InFields(i)) = MaxFields
        /\ InFields(i)[1].ident = "note"
        /\ InFields(i)[2].ident = "name"
        /\ OutFields(i)[1].ident = "note"
        /\ OutFields(i)[2].ident = "name"

\* C3: the name of every rendered declaration is the input's name followed by
\* "Optional", also when a declaration of that name was rendered before.
C3_NameDerivation ==
    \A i \in Invocations :
        Rendered(i) =>
            /\ output[i].kind = "struct"
            /\ output[i].decl.ident = input[i].ident \o "Optional"

C3_Witness ==
    \E i \in Invocations :
        /\ Rendered(i)
        /\ input[i].ident = "ItemOptional"
        /\ output[i].decl.ident = "ItemOptionalOptional"

\* C4 (as claimed): an invocation on a declaration that is not a struct with
\* named fields (tuple struct, unit struct, enum, union) ends in the error,
\* with a compile error as its output and no struct declaration.
C4_Rejection ==
    \A i \in Invocations :
        (Terminal(i) /\ ~IsRecord(input[i])) =>
            /\ Rejected(i)
            /\ output[i].kind = "compile_error"

\* C5 (as claimed): every field of a rendered declaration has the visibility
\* of the field it was made from.
C5_VisibilityPreserved ==
    \A i \in Invocations :
        Rendered(i) =>
            \A k \in 1..Len(InFields(i)) :
                /\ k <= Len(OutFields(i))
                /\ OutFields(i)[k].vis = InFields(i)[k].vis

\* C6 (as claimed): a field's type is kept unchanged exactly when it is the
\* one-segment path Option applied to an inner type; a longer path and a bare
\* Option are wrapped.
C6_OnlyOptionApplied ==
    \A i \in Invocations :
        Rendered(i) =>
            \A k \in 1..Len(InFields(i)) :
                LET t == InFields(i)[k].ty
                IN  (OutFields(i)[k].ty = t) <=>
                        /\ t.kind = "Path"
                        /\ Len(t.segments) = 1
                        /\ t.segments[1].ident = "Option"
                        /\ Len(t.segments[1].arguments) > 0

\* C6 (amended): a field's type is kept unchanged exactly when it is a path
\* type whose last segment is named Option, whatever segments lead to it and
\* whatever its generic arguments; every other type is wrapped in Option.
C6_LastSegmentOption ==
    \A i \in Invocations :
        Rendered(i) =>
            \A k \in 1..Len(InFields(i)) :
                LET t == InFields(i)[k].ty
                IN  /\ (OutFields(i)[k].ty = t) <=> EndsInOption(t)
                    /\ ~EndsInOption(t) => OutFields(i)[k].ty = OptionOf(t)

C6_Witness ==
    \E i \in Invocations :
        /\ Rendered(i)
        /\ \E a, b \in 1..Len(InFields(i)) :
            /\ InFields(i)[a].ty \in {TyStdOption, TyBareOption}
            /\ OutFields(i)[a].ty = InFields(i)[a].ty
            /\ InFields(i)[b].ty \in {TyAlias, TyParenOption, TyOptionItem, TyVecOption}
            /\ OutFields(i)[b].ty = OptionOf(InFields(i)[b].ty)

\* what the transform renders: a public struct with named, private fields
\* that all end in Option
DerivedShape(decl) ==
    /\ IsRecord(decl)
    /\ decl.vis = "pub"
    /\ \A k \in 1..Len(decl.data.fields) :
        /\ decl.data.fields[k].vis = "inherited"
        /\ decl.data.fields[k].ident # NoIdent
        /\ EndsInOption(decl.data.fields[k].ty)

\* C7: deriving a struct whose fields are all optional already keeps the
\* names, the order and the types of the fields and appends "Optional" to the
\* name; deriving a declaration of the shape the transform renders gives that
\* declaration back with nothing but the name changed.
C7_IdempotentSuffixGrowth ==
    \A i \in Invocations :
        Rendered(i) =>
            /\ (\A k \in 1..Len(InFields(i)) : EndsInOption(InFields(i)[k].ty)) =>
                /\ output[i].decl.ident = input[i].ident \o "Optional"
                /\ Len(OutFields(i)) = Len(InFields(i))
                /\ \A k \in 1..Len(InFields(i)) :
                    /\ OutFields(i)[k].ident = InFields(i)[k].ident
                    /\ OutFields(i)[k].ty = InFields(i)[k].ty
            /\ DerivedShape(input[i]) =>
                output[i].decl = [input[i] EXCEPT !.ident = input[i].ident \o "Optional"]

C7_Witness ==
    \E i \in Invocations :
        /\ Rendered(i)
        /\ DerivedShape(input[i])
        /\ input[i].ident = "ItemOptional"
        /\ Len(InFields(i)) = MaxFields
        /\ InFields(i)[1].ty = OptionOf(TyI32)
        /\ InFields(i)[2].ty = TyStdOption
        /\ output[i].decl.ident = "ItemOptionalOptional"

\* C8: an invocation on a struct with an empty field list ends rendered, never
\* in the error, and renders a struct without fields named <name>Optional.
C8_EmptyRecord ==
    \A i \in Invocations :
        (Terminal(i) /\ IsRecord(input[i]) /\ Len(InFields(i)) = 0) =>
            /\ Rendered(i)
            /\ output[i].kind = "struct"
            /\ output[i].decl.data.fields = <<>>
            /\ output[i].decl.ident = input[i].ident \o "Optional"

C8_Witness ==
    \E i \in Invocations :
        /\ Rendered(i)
        /\ input[i] = Decl("pub", "Item", "Struct", "Named", <<>>)
        /\ output[i].decl = Decl("pub", "ItemOptional", "Struct", "Named", <<>>)

\* the outcome of invocation i matches where it stands
OutcomeShape(i) ==
    /\ pc[i] \in {"idle", "parsed", "named", "fields", "rendered", "error"}
    /\ output[i].kind = (IF Rendered(i) THEN "struct"
                         ELSE IF Rejected(i) THEN "compile_error" ELSE "none")
    /\ Rendered(i) => output[i].decl # NoDecl /\ output[i].message = ""
    /\ Rejected(i) =>
        /\ input[i].data.kind # "Struct"
        /\ fields[i] = <<>>
        /\ optional_fields[i] = <<>>
        /\ output[i].decl = NoDecl
        /\ output[i].message # ""
        /\ output[i].span = input[i]
    /\ pc[i] = "fields" => input[i].data.kind = "Struct"

\* an invocation that ended in the error stays there until it returns
ErrorIsFinal(i) ==
    Rejected(i) =>
        \/ pc'[i] = "idle"
        \/ /\ pc'[i] = "error"
           /\ output'[i] = output[i]
           /\ optional_fields'[i] = <<>>

\* C9: an invocation ends rendered with a struct declaration or in the error
\* with a compile error and nothing else; in the error no field was projected
\* and no declaration is in the output, and the invocation does not go on.
C9_ErrorOutcomeShape ==
    /\ [](\A i \in Invocations : OutcomeShape(i))
    /\ [][\A i \in Invocations : ErrorIsFinal(i)]_vars

C9_Witness ==
    \E i \in Invocations :
        /\ Rejected(i)
        /\ input[i].data.kind = "Enum"
        /\ output[i].kind = "compile_error"

\* a step of invocation i leaves the other invocations as they are
OneInvocationMoves ==
    \A i, j \in Invocations :
        (i # j /\ <<pc[i], input[i], output[i]>> # <<pc'[i], input'[i], output'[i]>>) =>
            /\ output'[j] = output[j]
            /\ optional_struct_name'[j] = optional_struct_name[j]
            /\ optional_fields'[j] = optional_fields[j]

\* C10: two invocations that ended on equal declarations have equal outputs,
\* whatever ran between them, and no step of one invocation changes what
\* another has computed.
C10_InvocationIndependence ==
    /\ [](\A i, j \in Invocations :
            (Terminal(i) /\ Terminal(j) /\ input[i] = input[j]) => output[i] = output[j])
    /\ [][OneInvocationMoves]_vars

C10_Witness ==
    \E i, j \in Invocations :
        /\ i # j
        /\ Rendered(i)
        /\ Rendered(j)
        /\ input[i] = input[j]
        /\ input[i].ident = "Note"
        /\ output[i] = output[j]

====
